---- MODULE Spec2Model ----
(***************************************************************************)
(* A model of cmd/cloudflared/tunnel/subcommands.go: the list, info and    *)
(* route commands, the credential writer and the pure helpers they use.    *)
(*                                                                         *)
(* One run of the CLI executes one command, so every specification below   *)
(* starts idle and takes one command action.                               *)
(*                                                                         *)
(* Go strings are sequences of one-character strings, so that the byte-    *)
(* wise comparison, the regular expressions and the formatting of the      *)
(* source can be computed instead of assumed.                              *)
(***************************************************************************)
EXTENDS Integers, Sequences, FiniteSets, TLC

VARIABLES
    op,               \* the operation this run executed ("idle" before it)
    ctx,              \* the parsed flags of the invocation (cli.Context)
    args,             \* the positional arguments of the invocation
    filter,           \* the tunnelstore.Filter handed to sc.list
    fetched,          \* what the remote collaborator returned, in its order
    tunnels,          \* listCommand's slice after sort.Slice
    clients,          \* tunnelInfo's slice after sort.Slice
    invalidSortField, \* the local flag of listCommand / tunnelInfo
    stdout,           \* what was printed, in order
    logs,             \* what was logged, in order
    calls,            \* the collaborator calls made, in order
    route,            \* the tunnelstore.Route built (<<>> when nil)
    ret,              \* the error returned (NoErr when nil)
    fs,               \* the file system seen by writeTunnelCredentials
    fs0,              \* the file system before the run
    result,           \* the value returned by a pure helper
    pc                \* where the run stands ("start" before, "done" after)

vars == <<op, ctx, args, filter, fetched, tunnels, clients, invalidSortField,
          stdout, logs, calls, route, ret, fs, fs0, result, pc>>

----------------------------------------------------------------------------
(* Bounds of the model *)

MaxConns == 3
MaxTunnels == 3
MaxClients == 2
MaxArgs == 4
MaxStrLen == 3

----------------------------------------------------------------------------
(* Go strings *)

\* The characters the model uses, in increasing byte order.  The last one
\* stands for a non-ASCII letter (its UTF-8 bytes are above every ASCII byte).
CharOrder ==
    <<" ", "!", "*", ",", "-", ".", "0", "1", "2", "3", "4", "5", "6", "7",
      "8", "9", "A", "F", "J", "K", "L", "X", "_", "a", "b", "c", "d", "e",
      "f", "l", "n", "s", "x", "U+00FC">>

Code(c) == CHOOSE i \in 1..Len(CharOrder) : CharOrder[i] = c

Digits == <<"0", "1", "2", "3", "4", "5", "6", "7", "8", "9">>
HexDigits == <<"0", "1", "2", "3", "4", "5", "6", "7", "8", "9",
               "a", "b", "c", "d", "e", "f">>

\* Go's s < t on strings: byte-wise lexicographic, a proper prefix is smaller.
RECURSIVE StrLess(_, _)
StrLess(s, t) ==
    IF t = <<>> THEN FALSE
    ELSE IF s = <<>> THEN TRUE
    ELSE IF Head(s) # Head(t) THEN Code(Head(s)) < Code(Head(t))
    ELSE StrLess(Tail(s), Tail(t))

\* The text of a Go string, for messages.
RECURSIVE StrOf(_)
StrOf(s) == IF s = <<>> THEN "" ELSE Head(s) \o StrOf(Tail(s))

\* fmt's %d of a non-negative integer.
RECURSIVE Dec(_)
Dec(n) == IF n < 10 THEN <<Digits[n + 1]>>
          ELSE Dec(n \div 10) \o <<Digits[(n % 10) + 1]>>

\* strings.Join(elems, sep)
RECURSIVE Join(_, _)
Join(elems, sep) ==
    IF elems = <<>> THEN <<>>
    ELSE IF Len(elems) = 1 THEN elems[1]
    ELSE elems[1] \o sep \o Join(Tail(elems), sep)

SeqsUpTo(S, n) == UNION {[1..k -> S] : k \in 0..n}

----------------------------------------------------------------------------
(* Records fetched from the control plane *)

LAX == <<"L", "A", "X">>
JFK == <<"J", "F", "K">>
LA == <<"L", "A">>

ColoNames == {LAX, JFK, LA}

\* tunnelstore.Connection
Connections ==
    [ColoName : ColoNames, IsPendingReconnect : BOOLEAN, OriginIP : {"10.0.0.1"}]

Conn(colo, pending) ==
    [ColoName |-> colo, IsPendingReconnect |-> pending, OriginIP |-> "10.0.0.1"]

----------------------------------------------------------------------------
(* fmtConnections *)

\* numConnsPerColo after the counting loop has consumed `connections`:
\* a map from colo name to count, holding only the colos that were counted.
RECURSIVE CountPerColo(_, _, _)
CountPerColo(connections, showRecentlyDisconnected, numConnsPerColo) ==
    IF connections = <<>> THEN numConnsPerColo
    ELSE LET connection == Head(connections)
             colo == connection.ColoName
             next ==
                 IF ~connection.IsPendingReconnect \/ showRecentlyDisconnected
                 THEN IF colo \in DOMAIN numConnsPerColo
                      THEN [numConnsPerColo EXCEPT ![colo] = @ + 1]
                      ELSE (colo :> 1) @@ numConnsPerColo
                 ELSE numConnsPerColo
         IN CountPerColo(Tail(connections), showRecentlyDisconnected, next)

\* sort.Strings of the keys of a map: the keys are distinct, so whatever
\* order the map iteration produced, the sorted slice is the one ascending
\* arrangement of them.
SortStrings(keys) ==
    CHOOSE s \in [1..Cardinality(keys) -> keys] :
        \A i, j \in 1..Cardinality(keys) : i < j => StrLess(s[i], s[j])

\* fmtConnections counting the connections that are pending reconnect too.
fmtConnections_CountsPending(connections, showRecentlyDisconnected) ==
    LET numConnsPerColo == CountPerColo(connections, TRUE, <<>>)
        sortedColos == SortStrings(DOMAIN numConnsPerColo)
        output == [i \in 1..Len(sortedColos) |->
                      Dec(numConnsPerColo[sortedColos[i]]) \o <<"x">>
                          \o sortedColos[i]]
    IN Join(output, <<",", " ">>)

fmtConnections(connections, showRecentlyDisconnected) ==
    LET numConnsPerColo ==
            CountPerColo(connections, showRecentlyDisconnected, <<>>)
        sortedColos == SortStrings(DOMAIN numConnsPerColo)
        output == [i \in 1..Len(sortedColos) |->
                      Dec(numConnsPerColo[sortedColos[i]]) \o <<"x">>
                          \o sortedColos[i]]
    IN Join(output, <<",", " ">>)

----------------------------------------------------------------------------
(* Tunnels and connectors *)

\* time.Time: whole seconds since the Unix epoch and the nanoseconds within
\* the second.  Unix() drops the nanoseconds.
Time(sec, nsec) == [sec |-> sec, nsec |-> nsec]
Unix(t) == t.sec

\* time.Time{}: the zero time, which DeletedAt holds for a tunnel that was
\* not deleted.  Its Unix() is a constant below every real timestamp (year 1);
\* the model's timestamps are small, and so is its zero time.
ZeroTime == Time(0 - 1, 0)

\* uuid.UUID.String(): lower-case hexadecimal, two digits per byte (the
\* model's UUIDs are one byte long instead of sixteen).
UUIDString(id) == <<HexDigits[(id \div 16) + 1], HexDigits[(id % 16) + 1]>>

HexValue(c) ==
    IF \E i \in 1..16 : HexDigits[i] = c
    THEN (CHOOSE i \in 1..16 : HexDigits[i] = c) - 1
    ELSE IF c = "A" THEN 10
    ELSE IF c = "F" THEN 15
    ELSE -1

\* uuid.Parse: <<>> when the text is no UUID, <<id>> otherwise.
UUIDParse(s) ==
    IF Len(s) = 2 /\ HexValue(s[1]) >= 0 /\ HexValue(s[2]) >= 0
    THEN <<16 * HexValue(s[1]) + HexValue(s[2])>>
    ELSE <<>>

Tunnel(id, name, created, deleted, conns) ==
    [ID |-> id, Name |-> name, CreatedAt |-> created, DeletedAt |-> deleted,
     Connections |-> conns]

\* The tunnels the control plane may return.  Names are not unique, two
\* tunnels were created within the same second, two are not deleted and two
\* hold the same number of connections.
TunnelPool ==
    { Tunnel(26, <<"a">>, Time(30, 0), ZeroTime,
             <<Conn(LAX, FALSE), Conn(LAX, TRUE), Conn(JFK, FALSE)>>),
      Tunnel(11, <<"b">>, Time(10, 0), Time(50, 0), <<>>),
      Tunnel(44, <<"a">>, Time(20, 0), ZeroTime, <<Conn(JFK, TRUE)>>),
      Tunnel(160, <<"a", "b">>, Time(20, 5), Time(60, 0), <<Conn(LA, FALSE)>>) }

Client(id, runAt, version, arch, conns) ==
    [ID |-> id, RunAt |-> runAt, Version |-> version, Arch |-> arch,
     Connections |-> conns]

\* The connectors the control plane may return for a tunnel.
ClientPool ==
    { Client(3, Time(40, 0), <<"2", ".", "1">>, "amd64",
             <<Conn(LAX, FALSE), Conn(JFK, TRUE)>>),
      Client(2, Time(40, 7), <<"2", ".", "0">>, "arm64", <<Conn(JFK, TRUE)>>),
      Client(9, Time(35, 0), <<"2", ".", "1">>, "amd64", <<>>) }

\* The sequences without repetition of at most n members of S.
ListsOf(S, n) ==
    {s \in SeqsUpTo(S, n) : \A i, j \in 1..Len(s) : i # j => s[i] # s[j]}

\* The arrangements of the slice s.
PermsOf(s) ==
    LET n == Len(s)
    IN { [i \in 1..n |-> s[f[i]]] :
           f \in {g \in [1..n -> 1..n] : \A i, j \in 1..n : i # j => g[i] # g[j]} }

\* sort.Slice(s, less): the slice is rearranged in place; the sort is not
\* stable, and which of two elements comes first is decided by less alone.
\* less is given as the set of the pairs <<a, b>> of elements with less(a, b).
\* The outcomes are the arrangements in which no later element is strictly
\* before an earlier one, "strictly" meaning that less orders the pair one
\* way only.  Elements that less does not order one way (equal keys) may
\* end in any order: it depends on the length and on the Go release.
SortSlice(s, less) ==
    { p \in PermsOf(s) :
        \A i, j \in 1..Len(p) :
            i < j => ~(<<p[j], p[i]>> \in less /\ <<p[i], p[j]>> \notin less) }

\* The pairs of elements of s.
Pairs(s) == {<<s[i], s[j]>> : i, j \in 1..Len(s)}

\* sort.Slice calls less only when there are two elements to compare.
LessWasCalled(s) == Len(s) >= 2

----------------------------------------------------------------------------
(* The sort of listCommand *)

TunnelSortKeys == {"name", "id", "createdAt", "deletedAt", "numConnections"}

\* The closure cmp of listCommand.
TunnelCmp(sortBy, a, b) ==
    CASE sortBy = "name" -> StrLess(a.Name, b.Name)
      [] sortBy = "id" -> StrLess(UUIDString(a.ID), UUIDString(b.ID))
      [] sortBy = "createdAt" -> Unix(a.CreatedAt) < Unix(b.CreatedAt)
      [] sortBy = "deletedAt" -> Unix(a.DeletedAt) < Unix(b.DeletedAt)
      [] sortBy = "numConnections" -> Len(a.Connections) < Len(b.Connections)
      [] OTHER -> StrLess(a.Name, b.Name)

\* A less function that forgets --invert-sort.
TunnelLess_IgnoresInvert(sortBy, invertSort, a, b) == TunnelCmp(sortBy, a, b)

\* The less function listCommand hands to sort.Slice.
TunnelLess(sortBy, invertSort, a, b) ==
    IF invertSort THEN ~TunnelCmp(sortBy, a, b) ELSE TunnelCmp(sortBy, a, b)

\* The outcomes of listCommand's sort.Slice.
SortTunnels(s, sortBy, invertSort) ==
    SortSlice(s, {q \in Pairs(s) : TunnelLess(sortBy, invertSort, q[1], q[2])})

\* invalidSortField after listCommand's sort: the default branch of cmp
\* sets it, and cmp runs only when sort.Slice compares two elements.
TunnelInvalidSortField(s, sortBy) ==
    LessWasCalled(s) /\ sortBy \notin TunnelSortKeys

----------------------------------------------------------------------------
(* The sort of tunnelInfo *)

ClientSortKeys == {"id", "createdAt", "numConnections", "version"}

\* The closure cmp of tunnelInfo.
ClientCmp(sortBy, a, b) ==
    CASE sortBy = "id" -> StrLess(UUIDString(a.ID), UUIDString(b.ID))
      [] sortBy = "createdAt" -> Unix(a.RunAt) < Unix(b.RunAt)
      [] sortBy = "numConnections" -> Len(a.Connections) < Len(b.Connections)
      [] sortBy = "version" -> StrLess(a.Version, b.Version)
      [] OTHER -> Unix(a.RunAt) < Unix(b.RunAt)

\* The less function tunnelInfo hands to sort.Slice.
ClientLess(sortBy, invertSort, a, b) ==
    IF invertSort THEN ~ClientCmp(sortBy, a, b) ELSE ClientCmp(sortBy, a, b)

\* The outcomes of tunnelInfo's sort.Slice.
SortClients(s, sortBy, invertSort) ==
    SortSlice(s, {q \in Pairs(s) : ClientLess(sortBy, invertSort, q[1], q[2])})

\* invalidSortField after tunnelInfo's sort.
ClientInvalidSortField(s, sortBy) ==
    LessWasCalled(s) /\ sortBy \notin ClientSortKeys

----------------------------------------------------------------------------
(* Errors, flags and the state of a run *)

NoErr == [kind |-> "nil", msg |-> ""]
Err(kind, msg) == [kind |-> kind, msg |-> msg]

\* cli.Context lookups.  A name that no flag of the command carries yields
\* the zero value of the type: false, "", a nil *time.Time.
CtxBool(c, name) == IF name \in DOMAIN c THEN c[name] ELSE FALSE
CtxString(c, name) == IF name \in DOMAIN c THEN c[name] ELSE ""
CtxText(c, name) == IF name \in DOMAIN c THEN c[name] ELSE <<>>
CtxTimestamp(c, name) == IF name \in DOMAIN c THEN c[name] ELSE <<>>

\* tunnelstore.NewFilter(): no predicate set.
NewFilter == [noDeleted |-> FALSE, name |-> <<>>, existedAt |-> <<>>, tunnelID |-> <<>>]

\* The state before the command ran, on the file system as it is.
Idle ==
    [op |-> "idle", ctx |-> <<>>, args |-> <<>>, filter |-> NewFilter,
     fetched |-> <<>>, tunnels |-> <<>>, clients |-> <<>>,
     invalidSortField |-> FALSE, stdout |-> <<>>, logs |-> <<>>,
     calls |-> <<>>, route |-> <<>>, ret |-> NoErr, result |-> <<>>,
     fs |-> fs]

\* The run ends in the state s.
Becomes(s) ==
    /\ op' = s.op
    /\ ctx' = s.ctx
    /\ args' = s.args
    /\ filter' = s.filter
    /\ fetched' = s.fetched
    /\ tunnels' = s.tunnels
    /\ clients' = s.clients
    /\ invalidSortField' = s.invalidSortField
    /\ stdout' = s.stdout
    /\ logs' = s.logs
    /\ calls' = s.calls
    /\ route' = s.route
    /\ ret' = s.ret
    /\ result' = s.result
    /\ fs' = s.fs
    /\ pc' = "done"
    /\ UNCHANGED fs0

Printed(kind, body) == [kind |-> kind, body |-> body]
Logged(level, msg) == [level |-> level, msg |-> msg]

allSortByOptions == "name, id, createdAt, deletedAt, numConnections"
connsSortByOptions == "id, startedAt, numConnections, version"

\* The flags of the list command, as the user may set them.
SortByValues == TunnelSortKeys \cup ClientSortKeys \cup {"startedAt", "bogus"}
OutputValues == {"", "json", "yaml", "xml"}
WhenValues == {<<>>, <<Time(25, 0)>>}
IDValues == {<<>>, <<"1", "a">>, <<"x", "!">>}

ListContexts ==
    { ("show-deleted" :> d) @@ ("name" :> n) @@ ("when" :> w) @@ ("id" :> i)
        @@ ("show-recently-disconnected" :> rd) @@ ("sort-by" :> sb)
        @@ ("invert-sort" :> inv) @@ ("output" :> o) :
        d \in BOOLEAN, n \in {"", "alpha"}, w \in WhenValues, i \in IDValues,
        rd \in BOOLEAN, sb \in SortByValues \ {"version", "startedAt"},
        inv \in BOOLEAN, o \in OutputValues }

InfoContexts ==
    { ("show-recently-disconnected" :> rd) @@ ("sort-by" :> sb)
        @@ ("invert-sort" :> inv) @@ ("output" :> o) :
        rd \in BOOLEAN, sb \in SortByValues \ {"name", "deletedAt"},
        inv \in BOOLEAN, o \in OutputValues }

----------------------------------------------------------------------------
(* Rendering *)

\* renderOutput without its default case: an unknown format is encoded as JSON.
renderOutput_UnknownAsJson(format, v) ==
    IF format = "yaml" THEN [stdout |-> <<Printed("yaml", v)>>, ret |-> NoErr]
    ELSE [stdout |-> <<Printed("json", v)>>, ret |-> NoErr]

\* renderOutput: what is written to stdout and the error returned.
renderOutput(format, v) ==
    CASE format = "json" -> [stdout |-> <<Printed("json", v)>>, ret |-> NoErr]
      [] format = "yaml" -> [stdout |-> <<Printed("yaml", v)>>, ret |-> NoErr]
      [] OTHER -> [stdout |-> <<>>,
                   ret |-> Err("UnknownOutputFormat",
                               "Unknown output format '" \o format \o "'")]

\* formatAndPrintTunnelList: the hint, the column headers and one row per
\* tunnel, in the order of the slice.
formatAndPrintTunnelList(ts, showRecentlyDisconnected) ==
    <<Printed("tunnelTable",
        [i \in 1..Len(ts) |->
            [ID |-> UUIDString(ts[i].ID), Name |-> ts[i].Name,
             CreatedAt |-> ts[i].CreatedAt,
             Connections |->
                 fmtConnections(ts[i].Connections, showRecentlyDisconnected)]])>>

\* c.Connections[0].OriginIP.String(): indexing an empty slice panics.
FirstOriginIP(connections) ==
    IF connections = <<>> THEN "panic: index out of range [0] with length 0"
    ELSE connections[1].OriginIP

\* One row of the connector table.
ConnectorRow(c, conns) ==
    [ID |-> UUIDString(c.ID), RunAt |-> c.RunAt, Arch |-> c.Arch,
     Version |-> c.Version, OriginIP |-> FirstOriginIP(c.Connections),
     Connections |-> conns]

\* The row loop without the skip of the connectors that show no connection.
ConnectorRows_NoSkip(cs, showRecentlyDisconnected) ==
    [i \in 1..Len(cs) |->
        ConnectorRow(cs[i], fmtConnections(cs[i].Connections,
                                           showRecentlyDisconnected))]

\* The rows of the connector table: the connectors with a counted connection.
RECURSIVE ConnectorRows(_, _)
ConnectorRows(cs, showRecentlyDisconnected) ==
    IF cs = <<>> THEN <<>>
    ELSE LET c == Head(cs)
             conns == fmtConnections(c.Connections, showRecentlyDisconnected)
             rest == ConnectorRows(Tail(cs), showRecentlyDisconnected)
         IN IF Len(conns) = 0 THEN rest
            ELSE <<ConnectorRow(c, conns)>> \o rest

\* formatAndPrintConnectionsList: the tunnel's header, then either the
\* message that no connector is active or the connector table.
formatAndPrintConnectionsList(info, showRecentlyDisconnected) ==
    LET shouldDisplayTable ==
            \E i \in 1..Len(info.Connectors) :
                Len(fmtConnections(info.Connectors[i].Connections,
                                   showRecentlyDisconnected)) > 0
        header == Printed("tunnelHeader",
                          [Name |-> info.Name, ID |-> UUIDString(info.ID),
                           CreatedAt |-> info.CreatedAt])
    IN IF ~shouldDisplayTable
       THEN <<Printed("msg", "This tunnel has no active connectors."), header>>
       ELSE <<header,
              Printed("connectorTable",
                      ConnectorRows(info.Connectors, showRecentlyDisconnected))>>

----------------------------------------------------------------------------
(* listCommand *)

\* The filter listCommand builds from the flags.  tunnelID is the parsed
\* --id, when it was given and parses.
ListFilter(c, tunnelID) ==
    LET f1 == IF ~CtxBool(c, "show-deleted")
              THEN [NewFilter EXCEPT !.noDeleted = TRUE] ELSE NewFilter
        f2 == IF CtxString(c, "name") # ""
              THEN [f1 EXCEPT !.name = <<CtxString(c, "name")>>] ELSE f1
        f3 == IF CtxTimestamp(c, "time") # <<>>
              THEN [f2 EXCEPT !.existedAt = CtxTimestamp(c, "time")] ELSE f2
    IN IF CtxText(c, "id") # <<>> THEN [f3 EXCEPT !.tunnelID = tunnelID] ELSE f3

\* The warning of listCommand for an invalid sort field.
ListSortWarning(sortBy) ==
    Logged("error", sortBy \o " is not a valid sort field. Valid sort fields are "
                      \o allSortByOptions \o ". Defaulting to 'name'.")

\* The part of listCommand after the sort: the log and the output.
ListOutput(s, c, sorted) ==
    LET sortBy == CtxString(c, "sort-by")
        invalid == TunnelInvalidSortField(sorted, sortBy)
        s1 == [s EXCEPT !.tunnels = sorted, !.invalidSortField = invalid,
                        !.logs = IF invalid THEN <<ListSortWarning(sortBy)>> ELSE <<>>]
        outputFormat == CtxString(c, "output")
    IN IF outputFormat # ""
       THEN LET r == renderOutput(outputFormat, sorted)
            IN [s1 EXCEPT !.stdout = r.stdout, !.ret = r.ret]
       ELSE IF Len(sorted) > 0
       THEN [s1 EXCEPT !.stdout = formatAndPrintTunnelList(
                           sorted, CtxBool(c, "show-recently-disconnected"))]
       ELSE [s1 EXCEPT !.stdout = <<Printed("msg",
                "You have no tunnels, use 'cloudflared tunnel create' to define a new tunnel")>>]

\* One run of "cloudflared tunnel list".  scOk: newSubcommandContext
\* succeeded; listed: the answer of sc.list, <<>> for an error and <<l>> for
\* the list l.
ListCommand ==
    /\ op = "idle"
    /\ \E c \in ListContexts, scOk \in BOOLEAN :
        LET s0 == [Idle EXCEPT !.op = "list", !.ctx = c]
            id == CtxText(c, "id")
            tunnelID == UUIDParse(id)
        IN IF ~scOk
           THEN Becomes([s0 EXCEPT !.ret = Err("Setup", "error setting up the subcommand")])
           ELSE IF id # <<>> /\ tunnelID = <<>>
           THEN Becomes([s0 EXCEPT !.ret =
                    Err("InvalidTunnelID", StrOf(id) \o " is not a valid tunnel ID")])
           ELSE \E listed \in {<<>>} \cup {<<l>> : l \in ListsOf(TunnelPool, MaxTunnels)} :
                LET s1 == [s0 EXCEPT !.filter = ListFilter(c, tunnelID),
                                     !.calls = <<"list">>]
                IN IF listed = <<>>
                   THEN Becomes([s1 EXCEPT !.ret = Err("Remote", "list failed")])
                   ELSE \E sorted \in SortTunnels(listed[1], CtxString(c, "sort-by"),
                                                  CtxBool(c, "invert-sort")) :
                            Becomes(ListOutput([s1 EXCEPT !.fetched = listed[1]],
                                               c, sorted))

----------------------------------------------------------------------------
(* tunnelInfo *)

\* The warning of tunnelInfo for an invalid sort field.
InfoSortWarning(sortBy) ==
    Logged("error", sortBy \o " is not a valid sort field. Valid sort fields are "
                      \o connsSortByOptions \o ". Defaulting to 'name'.")

\* The part of tunnelInfo after getTunnel found the tunnel: the output.
InfoOutput(s, c, tunnel) ==
    LET info == [ID |-> tunnel.ID, Name |-> tunnel.Name,
                 CreatedAt |-> tunnel.CreatedAt, Connectors |-> s.clients]
        outputFormat == CtxString(c, "output")
    IN IF outputFormat # ""
       THEN LET r == renderOutput(outputFormat, info)
            IN [s EXCEPT !.stdout = r.stdout, !.ret = r.ret]
       ELSE IF Len(s.clients) > 0
       THEN [s EXCEPT !.stdout = formatAndPrintConnectionsList(
                          info, CtxBool(c, "show-recently-disconnected"))]
       ELSE [s EXCEPT !.stdout = <<Printed("msg",
                "Your tunnel " \o StrOf(UUIDString(tunnel.ID))
                    \o " does not have any active connection.")>>]

\* The tunnel "cloudflared tunnel info" is asked about.
InfoTunnel == CHOOSE t \in TunnelPool : t.ID = 26

\* The answers of sc.list to getTunnel: an error (<<>>) or a list.
GetTunnelAnswers ==
    {<<>>, <<(<<>>)>>, <<(<<InfoTunnel>>)>>,
     <<(<<InfoTunnel, CHOOSE t \in TunnelPool : t.ID = 11>>)>>}

\* One run of "cloudflared tunnel info".  scOk, found, clientOk: whether
\* newSubcommandContext, sc.findID and sc.client succeeded; active: the answer
\* of ListActiveClients; got: the answer of sc.list to getTunnel.
TunnelInfo ==
    /\ op = "idle"
    /\ \E c \in InfoContexts, scOk \in BOOLEAN,
          a \in SeqsUpTo({UUIDString(InfoTunnel.ID)}, 2) :
        LET s0 == [Idle EXCEPT !.op = "info", !.ctx = c, !.args = a]
        IN IF ~scOk
           THEN Becomes([s0 EXCEPT !.ret = Err("Setup", "error setting up the subcommand")])
           ELSE IF Len(a) # 1
           THEN Becomes([s0 EXCEPT !.ret = Err("UsageError",
                    "\"cloudflared tunnel info\" accepts exactly one argument, the ID or name of the tunnel to get info about.")])
           ELSE \E found \in BOOLEAN :
                IF ~found
                THEN Becomes([s0 EXCEPT !.calls = <<"findID">>,
                                        !.ret = Err("Remote", "error parsing tunnel ID")])
                ELSE \E clientOk \in BOOLEAN :
                     IF ~clientOk
                     THEN Becomes([s0 EXCEPT !.calls = <<"findID", "client">>,
                                             !.ret = Err("Remote", "client failed")])
                     ELSE \E active \in {<<>>} \cup
                                 {<<l>> : l \in ListsOf(ClientPool, MaxClients)} :
                          LET s1 == [s0 EXCEPT !.calls =
                                        <<"findID", "client", "ListActiveClients">>]
                          IN IF active = <<>>
                             THEN Becomes([s1 EXCEPT !.ret =
                                      Err("Remote", "ListActiveClients failed")])
                             ELSE \E sorted \in SortClients(active[1],
                                         CtxString(c, "sort-by"),
                                         CtxBool(c, "invert-sort")),
                                     got \in GetTunnelAnswers :
                                  LET sortBy == CtxString(c, "sort-by")
                                      invalid == ClientInvalidSortField(sorted, sortBy)
                                      s2 == [s1 EXCEPT
                                          !.fetched = active[1],
                                          !.clients = sorted,
                                          !.invalidSortField = invalid,
                                          !.logs = IF invalid
                                                   THEN <<InfoSortWarning(sortBy)>>
                                                   ELSE <<>>,
                                          !.filter = [NewFilter EXCEPT
                                                         !.tunnelID = <<InfoTunnel.ID>>],
                                          !.calls = s1.calls \o <<"list">>]
                                  IN IF got = <<>>
                                     THEN Becomes([s2 EXCEPT !.ret =
                                              Err("Remote", "list failed")])
                                     ELSE IF Len(got[1]) # 1
                                     THEN Becomes([s2 EXCEPT !.ret =
                                              Err("NotSingleTunnel",
                                                  "Expected to find a single tunnel with uuid "
                                                  \o StrOf(UUIDString(InfoTunnel.ID))
                                                  \o " but found "
                                                  \o StrOf(Dec(Len(got[1])))
                                                  \o " tunnels.")])
                                     ELSE Becomes(InfoOutput(s2, c, got[1][1]))

----------------------------------------------------------------------------
(* The list and info commands *)

\* Before the run: nothing was executed.
NothingRan ==
    /\ op = "idle"
    /\ ctx = Idle.ctx
    /\ args = Idle.args
    /\ filter = Idle.filter
    /\ fetched = Idle.fetched
    /\ tunnels = Idle.tunnels
    /\ clients = Idle.clients
    /\ invalidSortField = Idle.invalidSortField
    /\ stdout = Idle.stdout
    /\ logs = Idle.logs
    /\ calls = Idle.calls
    /\ route = Idle.route
    /\ ret = Idle.ret
    /\ result = Idle.result
    /\ pc = "start"

\* The file system plays no part in the list and info commands.
Init ==
    /\ fs = <<>>
    /\ fs0 = fs
    /\ NothingRan

Next == ListCommand \/ TunnelInfo

Spec == Init /\ [][Next]_vars

----------------------------------------------------------------------------
(* Properties of the list and info commands *)

Reverse(s) == [i \in 1..Len(s) |-> s[Len(s) + 1 - i]]

\* listCommand got a list from sc.list and sorted it.
ListSorted == op = "list" /\ calls = <<"list">> /\ ret.kind # "Remote"

\* tunnelInfo got the connectors and sorted them.
InfoSorted == op = "info" /\ Len(calls) = 4

\* tunnelInfo reached its output: getTunnel found the one tunnel.
InfoRendered == InfoSorted /\ ret.kind \notin {"Remote", "NotSingleTunnel"}

\* The value a tunnel is sorted by under a valid key.
TunnelKeyValue(sortBy, t) ==
    CASE sortBy = "name" -> t.Name
      [] sortBy = "id" -> t.ID
      [] sortBy = "createdAt" -> t.CreatedAt.sec
      [] sortBy = "deletedAt" -> t.DeletedAt.sec
      [] sortBy = "numConnections" -> Len(t.Connections)

DistinctKeyValues(s, sortBy) ==
    \A i, j \in 1..Len(s) :
        i # j => TunnelKeyValue(sortBy, s[i]) # TunnelKeyValue(sortBy, s[j])

\* This run inverts the sort of a list that a run without --invert-sort
\* could have produced under the same valid key.
ResortsInverted ==
    /\ ListSorted
    /\ ctx["sort-by"] \in TunnelSortKeys
    /\ ctx["invert-sort"]
    /\ fetched \in SortTunnels(fetched, ctx["sort-by"], FALSE)

\* C1, as claimed: for every list of tunnels and every valid sort key, sorting
\* the result of a sort without --invert-sort again with --invert-sort yields
\* exactly the reverse of that result.
C1_InvertedSortReverses_AsClaimed ==
    ResortsInverted => tunnels = Reverse(fetched)

\* C1, amended: the same, for the lists in which no two tunnels have the
\* same value of the sort key (name, id, createdAt and deletedAt in whole
\* seconds, number of connections).
C1_InvertedSortReversesDistinctKeys ==
    (ResortsInverted /\ DistinctKeyValues(fetched, ctx["sort-by"]))
        => tunnels = Reverse(fetched)

\* A list of three tunnels with distinct creation seconds was sorted
\* ascending and is sorted again inverted.
C1_Witness ==
    /\ ResortsInverted
    /\ ctx["sort-by"] = "createdAt"
    /\ Len(fetched) = 3
    /\ DistinctKeyValues(fetched, "createdAt")
    /\ tunnels = Reverse(fetched)

\* s is in the order of the default key, as the flag --invert-sort asks.
InNameOrder(s, inverted) ==
    \A i, j \in 1..Len(s) :
        i < j => IF inverted THEN ~StrLess(s[i].Name, s[j].Name)
                 ELSE ~StrLess(s[j].Name, s[i].Name)

InRunAtOrder(s, inverted) ==
    \A i, j \in 1..Len(s) :
        i < j => IF inverted THEN s[i].RunAt.sec >= s[j].RunAt.sec
                 ELSE s[i].RunAt.sec <= s[j].RunAt.sec

\* C2: for every fetched list and every sort key outside the recognised
\* set, list and info order the records by the default key (name, run
\* time), set invalidSortField so that the warning is logged, and do not
\* fail because of the key.
C2_UnknownKeyFallsBackAndWarns ==
    /\ (ListSorted /\ ctx["sort-by"] \notin TunnelSortKeys) =>
          /\ InNameOrder(tunnels, ctx["invert-sort"])
          /\ invalidSortField
          /\ logs = <<ListSortWarning(ctx["sort-by"])>>
          /\ ret.kind \in {"nil", "UnknownOutputFormat"}
    /\ (InfoSorted /\ ctx["sort-by"] \notin ClientSortKeys) =>
          /\ InRunAtOrder(clients, ctx["invert-sort"])
          /\ invalidSortField
          /\ logs = <<InfoSortWarning(ctx["sort-by"])>>
          /\ ret.kind \in {"nil", "UnknownOutputFormat", "Remote", "NotSingleTunnel"}

\* C3: when list is invoked with --when, the filter handed to sc.list
\* carries the existed-at predicate for that timestamp; without --when it
\* carries none.
C3_WhenReachesFilter ==
    (op = "list" /\ calls = <<"list">>) => filter.existedAt = ctx["when"]

TabularKinds == {"tunnelTable", "tunnelHeader", "connectorTable", "msg"}

\* What the command hands to the structured encoder.
RenderedValue ==
    IF op = "list" THEN tunnels
    ELSE [ID |-> InfoTunnel.ID, Name |-> InfoTunnel.Name,
          CreatedAt |-> InfoTunnel.CreatedAt, Connectors |-> clients]

\* C10: in list and info the output path is chosen by the format alone:
\* json and yaml take the structured encoder, any other non-empty format
\* fails with the unknown-output-format error, only the empty format takes
\* the tabular path, and with a non-empty format neither the tables nor the
\* "no tunnels" / "no active connection" messages are printed.
C10_FormatAloneChoosesOutput ==
    /\ (ListSorted \/ InfoRendered) =>
          /\ ctx["output"] \in {"json", "yaml"} =>
                /\ stdout = <<Printed(ctx["output"], RenderedValue)>>
                /\ ret = NoErr
          /\ ctx["output"] \notin {"json", "yaml", ""} =>
                /\ stdout = <<>>
                /\ ret = Err("UnknownOutputFormat",
                             "Unknown output format '" \o ctx["output"] \o "'")
          /\ ctx["output"] = "" =>
                /\ stdout # <<>>
                /\ \A i \in 1..Len(stdout) : stdout[i].kind \in TabularKinds
                /\ ret = NoErr
    /\ (op \in {"list", "info"} /\ ctx["output"] # "") =>
          \A i \in 1..Len(stdout) : stdout[i].kind \notin TabularKinds

\* list was asked for JSON and got no tunnel: the empty list went through
\* the encoder, and the "no tunnels" message was not printed.
C10_Witness ==
    /\ ListSorted
    /\ ctx["output"] = "json"
    /\ tunnels = <<>>
    /\ stdout = <<Printed("json", <<>>)>>

\* The sort keys that connsSortByOptions, the text of the help and of the
\* warning of the info command, names as valid.
AdvertisedInfoSortKeys == {"id", "startedAt", "numConnections", "version"}

\* a does not come after b under the advertised key.
ClientNotAfter(sortBy, a, b) ==
    CASE sortBy = "id" -> a.ID <= b.ID
      [] sortBy = "startedAt" -> a.RunAt.sec <= b.RunAt.sec
      [] sortBy = "numConnections" -> Len(a.Connections) <= Len(b.Connections)
      [] sortBy = "version" -> ~StrLess(b.Version, a.Version)

\* C12: for each sort key the help and the warning of the info command
\* advertise (id, startedAt, numConnections, version), info sorts the
\* connectors by the corresponding field and does not flag the key as an
\* invalid sort field.
C12_AdvertisedInfoKeysAreValid ==
    (InfoSorted /\ ctx["sort-by"] \in AdvertisedInfoSortKeys) =>
        /\ \A i, j \in 1..Len(clients) :
              i < j => IF ctx["invert-sort"]
                       THEN ClientNotAfter(ctx["sort-by"], clients[j], clients[i])
                       ELSE ClientNotAfter(ctx["sort-by"], clients[i], clients[j])
        /\ ~invalidSortField
        /\ logs = <<>>

\* tunnelInfo took the tabular path with at least one connector, that is,
\* it called formatAndPrintConnectionsList.
ConnectionsListPrinted ==
    InfoRendered /\ ctx["output"] = "" /\ clients # <<>>

\* The connector has a connection that is counted.
HasCountedConnection(c, show) ==
    \E i \in 1..Len(c.Connections) :
        ~c.Connections[i].IsPendingReconnect \/ show

\* The connector tables among what was printed.
ConnectorTables ==
    SelectSeq(stdout, LAMBDA e : e.kind = "connectorTable")

\* C14: in formatAndPrintConnectionsList the read of Connections[0] is
\* reached only for connectors with a non-empty connection list, so it is
\* never out of bounds; the connectors with no counted connection are
\* skipped, and when no connector has a counted connection the connector
\* table is not printed at all.
C14_FirstConnectionReadIsInBounds ==
    ConnectionsListPrinted =>
        LET show == ctx["show-recently-disconnected"]
            shown == SelectSeq(clients, LAMBDA c : HasCountedConnection(c, show))
        IN IF shown = <<>>
           THEN /\ ConnectorTables = <<>>
                /\ \E i \in 1..Len(stdout) :
                      stdout[i] = Printed("msg", "This tunnel has no active connectors.")
           ELSE /\ Len(ConnectorTables) = 1
                /\ LET rows == ConnectorTables[1].body
                   IN /\ Len(rows) = Len(shown)
                      /\ \A i \in 1..Len(rows) :
                            /\ rows[i].ID = UUIDString(shown[i].ID)
                            /\ shown[i].Connections # <<>>
                            /\ rows[i].OriginIP = shown[i].Connections[1].OriginIP

\* The table was printed for two connectors of which one, having no
\* connection at all, was skipped and the other, having only a connection
\* pending reconnect, was shown on request.
C14_Witness ==
    /\ ConnectionsListPrinted
    /\ ctx["show-recently-disconnected"]
    /\ Len(clients) = 2
    /\ \E i \in 1..2 : clients[i].Connections = <<>>
    /\ \E i \in 1..2 : clients[i].Connections = <<Conn(JFK, TRUE)>>
    /\ Len(ConnectorTables) = 1
    /\ Len(ConnectorTables[1].body) = 1

----------------------------------------------------------------------------
(* fmtConnections on its own *)

\* One call of fmtConnections: the connections are kept in `fetched`, the
\* flag in `ctx`, the string returned in `result`.
FmtConnections ==
    /\ op = "idle"
    /\ \E connections \in SeqsUpTo(Connections, MaxConns), show \in BOOLEAN :
        Becomes([Idle EXCEPT
            !.op = "fmtConnections",
            !.fetched = connections,
            !.ctx = ("show-recently-disconnected" :> show),
            !.result = fmtConnections(connections, show)])

NextFmt == FmtConnections

SpecFmt == Init /\ [][NextFmt]_vars

\* The positions of the connections that are counted.
CountedAt(connections, show) ==
    {i \in 1..Len(connections) : ~connections[i].IsPendingReconnect \/ show}

\* "<count>x<colo>" for the colo, over the counted connections.
ColoEntry(connections, show, colo) ==
    Dec(Cardinality({i \in CountedAt(connections, show) :
                        connections[i].ColoName = colo}))
        \o <<"x">> \o colo

\* C9: fmtConnections returns the ", "-joined list of "<count>x<colo>", one
\* per distinct colo with a counted connection, in ascending colo order,
\* a connection being counted iff it is not pending reconnect or
\* showRecentlyDisconnected is set; the result is empty when nothing is counted.
C9_FmtConnectionsGroupsCountsSorts ==
    op = "fmtConnections" =>
        LET show == ctx["show-recently-disconnected"]
            colos == {fetched[i].ColoName : i \in CountedAt(fetched, show)}
            n == Cardinality(colos)
        IN /\ \E order \in [1..n -> colos] :
                /\ \A i, j \in 1..n : i < j => StrLess(order[i], order[j])
                /\ result = Join([i \in 1..n |->
                                     ColoEntry(fetched, show, order[i])],
                                 <<",", " ">>)
           /\ (result = <<>>) <=> (CountedAt(fetched, show) = {})

\* The example of the specification: LAX, LAX pending, JFK.
C9_Witness ==
    /\ op = "fmtConnections"
    /\ fetched = <<Conn(LAX, FALSE), Conn(LAX, TRUE), Conn(JFK, FALSE)>>
    /\ \/ ~ctx["show-recently-disconnected"] /\ StrOf(result) = "1xJFK, 1xLAX"
       \/ ctx["show-recently-disconnected"] /\ StrOf(result) = "1xJFK, 2xLAX"

----------------------------------------------------------------------------
(* writeTunnelCredentials *)

\* The permission argument of ioutil.WriteFile: the decimal literal 400.
CredentialsFilePerm == 400

\* The three octal digits of a permission value: owner, group, others.
PermOwner(perm) == (perm \div 64) % 8
PermGroup(perm) == (perm \div 8) % 8
PermOthers(perm) == perm % 8

Paths == {"/home/u/.cloudflared/1a.json", "/etc/cloudflared/1a.json"}

Absent == [kind |-> "absent", content |-> "", perm |-> 0]
Denied == [kind |-> "denied", content |-> "", perm |-> 0]
File(content, perm) == [kind |-> "file", content |-> content, perm |-> perm]

\* What may be at a path before the run: nothing, something os.Stat cannot
\* reach (a directory on the way is not searchable), or a file.
FileStatesBefore ==
    {Absent, Denied, File("{\"TunnelSecret\":\"old\"}", 384), File("", 420)}

Credentials == {"secretA", "secretB"}

\* json.Marshal(credentials)
Marshal(credentials) == "{\"TunnelSecret\":\"" \o credentials \o "\"}"

\* os.Stat(filePath): nil when something is there, the not-exist error when
\* nothing is, another error when the path cannot be reached.
Stat(files, filePath) ==
    CASE files[filePath].kind = "file" -> NoErr
      [] files[filePath].kind = "absent" ->
            Err("NotExist", "stat " \o filePath \o ": no such file or directory")
      [] OTHER -> Err("Permission", "stat " \o filePath \o ": permission denied")

IsNotExist(err) == err.kind = "NotExist"

\* ioutil.WriteFile(filePath, body, perm) on a path where nothing is: the
\* file is created with perm and holds body; when opening fails nothing is
\* created, when writing fails the file is left empty.
WriteFile(files, filePath, body, perm, outcome) ==
    CASE outcome = "ok" ->
            [fs |-> [files EXCEPT ![filePath] = File(body, perm)], ret |-> NoErr]
      [] outcome = "openFails" ->
            [fs |-> files, ret |-> Err("Open", "open " \o filePath \o ": failed")]
      [] OTHER ->
            [fs |-> [files EXCEPT ![filePath] = File("", perm)],
             ret |-> Err("Write", "write " \o filePath \o ": failed")]

\* writeTunnelCredentials without the existence check.
writeTunnelCredentials_NoStat(files, filePath, credentials, marshalOk, outcome) ==
    LET w == WriteFile(files, filePath, Marshal(credentials),
                       CredentialsFilePerm, outcome)
    IN [fs |-> w.fs, ret |-> w.ret,
        calls |-> <<[fn |-> "WriteFile", path |-> filePath,
                     perm |-> CredentialsFilePerm]>>]

\* writeTunnelCredentials(filePath, credentials) on the file system `files`.
\* marshalOk and outcome are what json.Marshal and the write turn out to do.
writeTunnelCredentials(files, filePath, credentials, marshalOk, outcome) ==
    LET err == Stat(files, filePath)
    IN IF ~IsNotExist(err)
       THEN IF err = NoErr
            THEN [fs |-> files, calls |-> <<>>,
                  ret |-> Err("AlreadyExists", filePath \o " already exists")]
            ELSE [fs |-> files, calls |-> <<>>, ret |-> err]
       ELSE IF ~marshalOk
       THEN [fs |-> files, calls |-> <<>>,
             ret |-> Err("Marshal", "Unable to marshal tunnel credentials to JSON")]
       ELSE LET w == WriteFile(files, filePath, Marshal(credentials),
                               CredentialsFilePerm, outcome)
            IN [fs |-> w.fs, ret |-> w.ret,
                calls |-> <<[fn |-> "WriteFile", path |-> filePath,
                             perm |-> CredentialsFilePerm]>>]

\* One call of writeTunnelCredentials: the path is kept in `args`, the
\* credentials in `ctx`.
WriteTunnelCredentials ==
    /\ op = "idle"
    /\ \E filePath \in Paths, credentials \in Credentials, marshalOk \in BOOLEAN,
          outcome \in {"ok", "openFails", "writeFails"} :
        LET r == writeTunnelCredentials(fs, filePath, credentials, marshalOk, outcome)
        IN Becomes([Idle EXCEPT
               !.op = "writeTunnelCredentials",
               !.args = <<filePath>>,
               !.ctx = [credentials |-> credentials],
               !.fs = r.fs,
               !.calls = r.calls,
               !.ret = r.ret])

InitCred ==
    /\ fs \in [Paths -> FileStatesBefore]
    /\ fs0 = fs
    /\ NothingRan

NextCred == WriteTunnelCredentials

SpecCred == InitCred /\ [][NextCred]_vars

\* C4: on a path where a file exists writeTunnelCredentials returns the
\* already-exists error and leaves the file as it was; it writes only when
\* the existence check says the path does not exist; any other stat error
\* is returned as it is, without writing.
C4_NeverOverwrites ==
    op = "writeTunnelCredentials" =>
        LET filePath == args[1]
        IN /\ fs0[filePath].kind = "file" =>
                /\ ret = Err("AlreadyExists", filePath \o " already exists")
                /\ fs = fs0
           /\ (fs # fs0 \/ calls # <<>>) => fs0[filePath].kind = "absent"
           /\ fs0[filePath].kind = "denied" =>
                /\ ret = Stat(fs0, filePath)
                /\ fs = fs0
           /\ \A other \in Paths \ {filePath} : fs[other] = fs0[other]

\* The call found a file and refused; another call found nothing and wrote.
C4_Witness ==
    /\ op = "writeTunnelCredentials"
    /\ fs0[args[1]].kind = "file"
    /\ ret.kind = "AlreadyExists"
    /\ fs = fs0

\* C5: the permission bits requested for a fresh credentials file grant
\* nothing to group and others.
C5_PermissionsAreRestrictive ==
    (op = "writeTunnelCredentials" /\ calls # <<>>) =>
        /\ PermGroup(calls[1].perm) = 0
        /\ PermOthers(calls[1].perm) = 0

----------------------------------------------------------------------------
(* validateName and validateHostname *)

LowerCase == {"a", "b", "c", "d", "e", "f", "g", "h", "i", "j", "k", "l", "m",
              "n", "o", "p", "q", "r", "s", "t", "u", "v", "w", "x", "y", "z"}
UpperCase == {"A", "B", "C", "D", "E", "F", "G", "H", "I", "J", "K", "L", "M",
              "N", "O", "P", "Q", "R", "S", "T", "U", "V", "W", "X", "Y", "Z"}
DigitChars == {"0", "1", "2", "3", "4", "5", "6", "7", "8", "9"}

\* [_a-zA-Z0-9] and [-_.a-zA-Z0-9]
NameFirstChars == {"_"} \cup LowerCase \cup UpperCase \cup DigitChars
NameRestChars == {"-", "_", "."} \cup LowerCase \cup UpperCase \cup DigitChars

\* nameRegex.MatchString(s): ^[_a-zA-Z0-9][-_.a-zA-Z0-9]*$
nameRegex(s) ==
    /\ Len(s) >= 1
    /\ s[1] \in NameFirstChars
    /\ \A i \in 2..Len(s) : s[i] \in NameRestChars

\* hostNameRegex.MatchString(s): ^[*_a-zA-Z0-9][-_.a-zA-Z0-9]*$
hostNameRegex(s) ==
    /\ Len(s) >= 1
    /\ s[1] \in {"*"} \cup NameFirstChars
    /\ \A i \in 2..Len(s) : s[i] \in NameRestChars

\* validateName using the hostname expression whatever the flag says.
validateName_AlwaysWildcard(s, allowWildcardSubdomain) == hostNameRegex(s)

validateName(s, allowWildcardSubdomain) ==
    IF allowWildcardSubdomain THEN hostNameRegex(s) ELSE nameRegex(s)

IsASCII(c) == c # "U+00FC"

\* The labels of a domain name: the text between the dots.
RECURSIVE Labels(_, _)
Labels(s, label) ==
    IF s = <<>> THEN <<label>>
    ELSE IF Head(s) = "." THEN <<label>> \o Labels(Tail(s), <<>>)
    ELSE Labels(Tail(s), Append(label, Head(s)))

\* The longest label and the longest name DNS allows.
MaxLabelLen == 63
MaxNameLen == 253

\* The Punycode form of a label that is not all ASCII: the prefix, the ASCII
\* characters of the label with their delimiter, and the digits that place
\* the others ("tda" places one U+00FC in an otherwise empty label).
ToPunycode(label) ==
    LET basic == SelectSeq(label, IsASCII)
        others == Len(label) - Len(basic)
    IN <<"x", "n", "-", "-">> \o basic
         \o (IF basic # <<>> THEN <<"-">> ELSE <<>>)
         \o Join([i \in 1..others |-> <<"t", "d", "a">>], <<>>)

\* What the profile of validateHostname checks of one label (ValidateLabels):
\* no hyphen at either end and none in both the third and fourth place.
LabelIsValid(label) ==
    /\ label[1] # "-"
    /\ label[Len(label)] # "-"
    /\ ~(Len(label) > 4 /\ label[3] = "-" /\ label[4] = "-")

\* idnaProfile.ToASCII(s) for the profile of validateHostname (per-label
\* validation and DNS length verification): <<>> for an error, <<puny>>
\* otherwise.  An empty name, an empty label other than a last one, an
\* invalid or over-long label and an over-long name are errors; a label that
\* is not all ASCII is replaced by its Punycode form.
ToASCII(s) ==
    LET ls == Labels(s, <<>>)
        n == Len(ls)
        labelOk(i) ==
            IF ls[i] = <<>> THEN i = n /\ n > 1
            ELSE LabelIsValid(ls[i])
        encoded == [i \in 1..n |->
                       IF \A k \in 1..Len(ls[i]) : IsASCII(ls[i][k])
                       THEN ls[i] ELSE ToPunycode(ls[i])]
        puny == Join(encoded, <<".">>)
        nameLen == IF puny # <<>> /\ puny[Len(puny)] = "." THEN Len(puny) - 1
                   ELSE Len(puny)
    IN IF /\ s # <<>>
          /\ \A i \in 1..n : labelOk(i)
          /\ \A i \in 1..n : ls[i] # <<>> => Len(encoded[i]) <= MaxLabelLen
          /\ nameLen <= MaxNameLen
       THEN <<puny>> ELSE <<>>

validateHostname(s, allowWildcardSubdomain) ==
    LET puny == ToASCII(s)
    IN puny # <<>> /\ validateName(puny[1], allowWildcardSubdomain)

----------------------------------------------------------------------------
(* validateName on its own *)

\* The characters the names are drawn from: a letter of each case, a digit,
\* the underscore, the hyphen, the dot, the wildcard and a character that no
\* class of the regular expressions holds.
NameAlphabet == {"a", "Z", "0", "_", "-", ".", "*", "!"}

\* One call of validateName: the string is kept in `args`, the flag in
\* `ctx`, the boolean returned in `result`.
ValidateName ==
    /\ op = "idle"
    /\ \E s \in SeqsUpTo(NameAlphabet, MaxStrLen), allowWildcard \in BOOLEAN :
        Becomes([Idle EXCEPT
            !.op = "validateName",
            !.args = <<s>>,
            !.ctx = ("allowWildcardSubdomain" :> allowWildcard),
            !.result = validateName(s, allowWildcard)])

NextValidate == ValidateName

SpecValidate == Init /\ [][NextValidate]_vars

Alphanumeric == LowerCase \cup UpperCase \cup DigitChars

\* C11: validateName(s, allowWildcard) is true exactly when s is non-empty,
\* its first character is in [_A-Za-z0-9] (or, only with allowWildcard, is
\* '*') and every later character is in [-_.A-Za-z0-9]; so a leading '-' or
\* '.' is rejected, a '*' after the first place is rejected, and a leading
\* '*' is rejected without allowWildcard.
C11_ValidateNameMatchesPattern ==
    op = "validateName" =>
        LET s == args[1]
            allowWildcard == ctx["allowWildcardSubdomain"]
            firstOk == \/ s[1] = "_"
                       \/ s[1] \in Alphanumeric
                       \/ (allowWildcard /\ s[1] = "*")
            laterOk == \A i \in 2..Len(s) :
                           s[i] \in {"-", "_", "."} \/ s[i] \in Alphanumeric
        IN /\ result <=> (s # <<>> /\ firstOk /\ laterOk)
           /\ (s # <<>> /\ s[1] \in {"-", "."}) => ~result
           /\ (\E i \in 2..Len(s) : s[i] = "*") => ~result
           /\ (s # <<>> /\ s[1] = "*" /\ ~allowWildcard) => ~result

\* A name with a leading wildcard was accepted with the wildcard allowed;
\* the same name without it is among the rejected ones.
C11_Witness ==
    /\ op = "validateName"
    /\ args[1] = <<"*", ".", "a">>
    /\ ctx["allowWildcardSubdomain"]
    /\ result = TRUE

----------------------------------------------------------------------------
(* The route builders and routeCommand *)

DNS == <<"d", "n", "s">>
LB == <<"l", "b">>

\* The positional arguments a user may give: the empty string, the two route
\* types, a plain name, a wildcard hostname, a name ending in a hyphen (the
\* regular expressions accept it, IDNA does not), a name starting with a
\* hyphen, and a hostname that is not ASCII.
ArgPool ==
    { <<>>, DNS, LB, <<"a", ".", "b">>, <<"*", ".", "a">>, <<"a", "-">>,
      <<"-", "a">>, <<"U+00FC">> }

\* c.Args().Get(i), counting from 0: "" when there is no such argument.
ArgsGet(a, i) == IF i + 1 <= Len(a) THEN a[i + 1] ELSE <<>>

\* tunnelstore.NewDNSRoute and tunnelstore.NewLBRoute
NewDNSRoute(userHostname, overwriteExisting) ==
    [type |-> "dns", hostname |-> userHostname,
     overwriteExisting |-> overwriteExisting]
NewLBRoute(lbName, lbPool) ==
    [type |-> "lb", lbName |-> lbName, lbPool |-> lbPool]

ExpectedArgs(expected, got) ==
    Err("UsageError", "Expected " \o StrOf(Dec(expected)) \o " arguments, got "
                        \o StrOf(Dec(got)))

\* dnsRouteFromArg validating the hostname with the wildcard disallowed.
dnsRouteFromArg_NoWildcard(a, overwriteExisting) ==
    IF Len(a) # 3
    THEN [route |-> <<>>, ret |-> ExpectedArgs(3, Len(a))]
    ELSE IF ArgsGet(a, 2) = <<>>
    THEN [route |-> <<>>,
          ret |-> Err("UsageError", "The third argument should be the hostname")]
    ELSE IF ~validateHostname(ArgsGet(a, 2), FALSE)
    THEN [route |-> <<>>,
          ret |-> Err("InvalidArgument",
                      StrOf(ArgsGet(a, 2)) \o " is not a valid hostname")]
    ELSE [route |-> <<NewDNSRoute(ArgsGet(a, 2), overwriteExisting)>>,
          ret |-> NoErr]

\* dnsRouteFromArg: the route (<<>> for nil) and the error.
dnsRouteFromArg(a, overwriteExisting) ==
    LET userHostname == ArgsGet(a, 2)
    IN IF Len(a) # 3
       THEN [route |-> <<>>, ret |-> ExpectedArgs(3, Len(a))]
       ELSE IF userHostname = <<>>
       THEN [route |-> <<>>,
             ret |-> Err("UsageError", "The third argument should be the hostname")]
       ELSE IF ~validateHostname(userHostname, TRUE)
       THEN [route |-> <<>>,
             ret |-> Err("InvalidArgument",
                         StrOf(userHostname) \o " is not a valid hostname")]
       ELSE [route |-> <<NewDNSRoute(userHostname, overwriteExisting)>>,
             ret |-> NoErr]

\* lbRouteFromArg validating the pool name the way it validates the hostname.
lbRouteFromArg_PoolAsHostname(a) ==
    IF Len(a) # 4
    THEN [route |-> <<>>, ret |-> ExpectedArgs(4, Len(a))]
    ELSE IF ArgsGet(a, 2) = <<>> \/ ArgsGet(a, 3) = <<>>
    THEN [route |-> <<>>, ret |-> Err("UsageError", "an argument is missing")]
    ELSE IF ~validateHostname(ArgsGet(a, 2), TRUE)
            \/ ~validateHostname(ArgsGet(a, 3), TRUE)
    THEN [route |-> <<>>, ret |-> Err("InvalidArgument", "not a valid name")]
    ELSE [route |-> <<NewLBRoute(ArgsGet(a, 2), ArgsGet(a, 3))>>, ret |-> NoErr]

\* lbRouteFromArg: the route (<<>> for nil) and the error.
lbRouteFromArg(a) ==
    LET lbName == ArgsGet(a, 2)
        lbPool == ArgsGet(a, 3)
    IN IF Len(a) # 4
       THEN [route |-> <<>>, ret |-> ExpectedArgs(4, Len(a))]
       ELSE IF lbName = <<>>
       THEN [route |-> <<>>,
             ret |-> Err("UsageError",
                         "The third argument should be the load balancer name")]
       ELSE IF ~validateHostname(lbName, TRUE)
       THEN [route |-> <<>>,
             ret |-> Err("InvalidArgument",
                         StrOf(lbName) \o " is not a valid load balancer name")]
       ELSE IF lbPool = <<>>
       THEN [route |-> <<>>,
             ret |-> Err("UsageError", "The fourth argument should be the pool name")]
       ELSE IF ~validateName(lbPool, FALSE)
       THEN [route |-> <<>>,
             ret |-> Err("InvalidArgument",
                         StrOf(lbPool) \o " is not a valid pool name")]
       ELSE [route |-> <<NewLBRoute(lbName, lbPool)>>, ret |-> NoErr]

\* One call of dnsRouteFromArg on its own.
DnsRouteFromArg ==
    /\ op = "idle"
    /\ \E a \in SeqsUpTo(ArgPool, MaxArgs), overwrite \in BOOLEAN :
        LET r == dnsRouteFromArg(a, overwrite)
        IN Becomes([Idle EXCEPT !.op = "dnsRouteFromArg", !.args = a,
                                !.ctx = ("overwrite-dns" :> overwrite),
                                !.route = r.route, !.ret = r.ret])

\* One call of lbRouteFromArg on its own.
LbRouteFromArg ==
    /\ op = "idle"
    /\ \E a \in SeqsUpTo(ArgPool, MaxArgs) :
        LET r == lbRouteFromArg(a)
        IN Becomes([Idle EXCEPT !.op = "lbRouteFromArg", !.args = a,
                                !.route = r.route, !.ret = r.ret])

UnrecognizedRouteType(routeType) ==
    Err("UsageError", StrOf(routeType)
            \o " is not a recognized route type. Supported route types are dns and lb")

\* The part of routeCommand after the switch built the route: sc.route and
\* the log of the summary.  applied: sc.route succeeded.
ApplyRoute(s, applied) ==
    LET s1 == [s EXCEPT !.calls = s.calls \o <<"route">>]
    IN IF ~applied
       THEN [s1 EXCEPT !.ret = Err("Remote", "route failed")]
       ELSE [s1 EXCEPT !.logs = <<Logged("info", [summaryOf |-> s.route[1]])>>]

\* routeCommand resolving the tunnel ID before it looks at the route type.
routeCommand_ResolvesFirst(a, overwrite, scOk, found, applied) ==
    LET s0 == [Idle EXCEPT !.op = "route", !.args = a,
                           !.ctx = ("overwrite-dns" :> overwrite)]
        routeType == ArgsGet(a, 0)
        s1 == [s0 EXCEPT !.calls = <<"findID">>]
        r == IF routeType = DNS THEN dnsRouteFromArg(a, overwrite)
             ELSE lbRouteFromArg(a)
    IN IF Len(a) < 2
       THEN [s0 EXCEPT !.ret = Err("UsageError", "too few arguments")]
       ELSE IF ~scOk
       THEN [s0 EXCEPT !.ret = Err("Setup", "error setting up the subcommand")]
       ELSE IF ~found
       THEN [s1 EXCEPT !.ret = Err("Remote", "findID failed")]
       ELSE IF routeType \notin {DNS, LB}
       THEN [s1 EXCEPT !.ret = UnrecognizedRouteType(routeType)]
       ELSE IF r.ret # NoErr
       THEN [s1 EXCEPT !.ret = r.ret]
       ELSE ApplyRoute([s1 EXCEPT !.route = r.route], applied)

\* routeCommand: the state the run ends in.  scOk, found, applied: whether
\* newSubcommandContext, sc.findID and sc.route succeed when they are called.
routeCommand(a, overwrite, scOk, found, applied) ==
    LET s0 == [Idle EXCEPT !.op = "route", !.args = a,
                           !.ctx = ("overwrite-dns" :> overwrite)]
        routeType == ArgsGet(a, 0)
        s1 == [s0 EXCEPT !.calls = <<"findID">>]
        r == IF routeType = DNS
             THEN dnsRouteFromArg(a, CtxBool(s0.ctx, "overwrite-dns"))
             ELSE lbRouteFromArg(a)
    IN IF Len(a) < 2
       THEN [s0 EXCEPT !.ret = Err("UsageError",
                "\"cloudflared tunnel route\" requires the first argument to be the route type(dns or lb), followed by the ID or name of the tunnel")]
       ELSE IF ~scOk
       THEN [s0 EXCEPT !.ret = Err("Setup", "error setting up the subcommand")]
       ELSE IF routeType \in {DNS, LB}
       THEN IF ~found
            THEN [s1 EXCEPT !.ret = Err("Remote", "findID failed")]
            ELSE IF r.ret # NoErr
            THEN [s1 EXCEPT !.ret = r.ret]
            ELSE ApplyRoute([s1 EXCEPT !.route = r.route], applied)
       ELSE [s0 EXCEPT !.ret = UnrecognizedRouteType(routeType)]

\* One run of "cloudflared tunnel route".
RouteCommand ==
    /\ op = "idle"
    /\ \E a \in SeqsUpTo(ArgPool, MaxArgs),
          overwrite, scOk, found, applied \in BOOLEAN :
        Becomes(routeCommand(a, overwrite, scOk, found, applied))

NextRoute == RouteCommand \/ DnsRouteFromArg \/ LbRouteFromArg

SpecRoute == Init /\ [][NextRoute]_vars

\* C6: dnsRouteFromArg returns a DNS route, carrying the third argument as
\* hostname and the overwrite flag, iff there are exactly 3 arguments and the
\* third is non-empty and passes validateHostname with wildcard allowed; with
\* another count N it fails with "Expected 3 arguments, got N", and with an
\* invalid hostname with an error naming the hostname.
C6_DnsRouteIffThreeArgsValidHostname ==
    op = "dnsRouteFromArg" =>
        LET ok == /\ Len(args) = 3
                  /\ args[3] # <<>>
                  /\ validateHostname(args[3], TRUE)
        IN /\ (route # <<>>) <=> ok
           /\ (ret = NoErr) <=> ok
           /\ ok => route = <<[type |-> "dns", hostname |-> args[3],
                               overwriteExisting |-> ctx["overwrite-dns"]]>>
           /\ Len(args) # 3 =>
                ret = Err("UsageError", "Expected 3 arguments, got "
                                          \o ToString(Len(args)))
           /\ (Len(args) = 3 /\ args[3] # <<>> /\ ~validateHostname(args[3], TRUE)) =>
                ret = Err("InvalidArgument",
                          StrOf(args[3]) \o " is not a valid hostname")

\* A wildcard hostname was accepted with the overwrite flag set.
C6_Witness ==
    /\ op = "dnsRouteFromArg"
    /\ Len(args) = 3
    /\ args[3] = <<"*", ".", "a">>
    /\ ctx["overwrite-dns"]
    /\ route = <<NewDNSRoute(args[3], TRUE)>>

\* C7: lbRouteFromArg returns a load-balancer route iff there are exactly 4
\* arguments, the third is non-empty and passes validateHostname with
\* wildcard allowed, and the fourth is non-empty and passes validateName with
\* wildcard disallowed (a pool name starting with '*' is rejected);
\* otherwise it returns an error and no route.
C7_LbRouteIffFourArgsValidNames ==
    op = "lbRouteFromArg" =>
        LET ok == /\ Len(args) = 4
                  /\ args[3] # <<>>
                  /\ validateHostname(args[3], TRUE)
                  /\ args[4] # <<>>
                  /\ validateName(args[4], FALSE)
        IN /\ ok => /\ route = <<[type |-> "lb", lbName |-> args[3],
                                  lbPool |-> args[4]]>>
                    /\ ret = NoErr
           /\ ~ok => route = <<>> /\ ret # NoErr
           /\ (Len(args) = 4 /\ args[4] # <<>> /\ args[4][1] = "*") => route = <<>>

\* A wildcard load-balancer hostname was accepted with a plain pool name,
\* the shape of rejected calls being covered by the wildcard pool name.
C7_Witness ==
    /\ op = "lbRouteFromArg"
    /\ Len(args) = 4
    /\ args[3] = <<"*", ".", "a">>
    /\ args[4] = <<"a", ".", "b">>
    /\ route = <<NewLBRoute(args[3], args[4])>>

\* The run resolved no tunnel ID and applied no route.
NothingResolvedOrApplied ==
    \A i \in 1..Len(calls) : calls[i] \notin {"findID", "route"}

\* C8, as claimed: every invocation of route whose first argument is a token
\* other than dns and lb fails with the unrecognized-route-type error naming
\* the token, and neither resolves a tunnel ID nor applies a route.
C8_UnknownRouteTypeRejected_AsClaimed ==
    (op = "route" /\ Len(args) >= 1 /\ args[1] \notin {DNS, LB}) =>
        /\ ret = UnrecognizedRouteType(args[1])
        /\ NothingResolvedOrApplied

\* C8, amended: an invocation of route whose first argument is a token other
\* than dns and lb neither resolves a tunnel ID nor applies a route, and
\* fails; with at least two arguments, and the subcommand context set up, the
\* error is the unrecognized-route-type error naming the token.
C8_UnknownRouteTypeRejected ==
    (op = "route" /\ Len(args) >= 1 /\ args[1] \notin {DNS, LB}) =>
        /\ ret # NoErr
        /\ NothingResolvedOrApplied
        /\ (Len(args) >= 2 /\ ret.kind # "Setup") =>
                ret = UnrecognizedRouteType(args[1])

\* A three-argument invocation with an unknown type and otherwise valid
\* arguments was rejected by its type.
C8_Witness ==
    /\ op = "route"
    /\ args = <<(<<"a", ".", "b">>), LB, <<"*", ".", "a">>>>
    /\ ret = UnrecognizedRouteType(<<"a", ".", "b">>)
    /\ calls = <<>>

----------------------------------------------------------------------------
(* routeCommand step by step *)

\* routeCommand up to the switch on the route type: the check of NArg,
\* newSubcommandContext, and the default branch of the switch.
RouteStart ==
    /\ pc = "start"
    /\ op = "idle"
    /\ \E a \in SeqsUpTo(ArgPool, MaxArgs), overwrite, scOk \in BOOLEAN :
        /\ op' = "route"
        /\ args' = a
        /\ ctx' = ("overwrite-dns" :> overwrite)
        /\ IF Len(a) < 2
           THEN /\ ret' = Err("UsageError",
                    "\"cloudflared tunnel route\" requires the first argument to be the route type(dns or lb), followed by the ID or name of the tunnel")
                /\ pc' = "done"
           ELSE IF ~scOk
           THEN /\ ret' = Err("Setup", "error setting up the subcommand")
                /\ pc' = "done"
           ELSE IF ArgsGet(a, 0) \in {DNS, LB}
           THEN /\ ret' = NoErr
                /\ pc' = "findID"
           ELSE /\ ret' = UnrecognizedRouteType(ArgsGet(a, 0))
                /\ pc' = "done"
    /\ UNCHANGED <<filter, fetched, tunnels, clients, invalidSortField,
                   stdout, logs, calls, route, fs, fs0, result>>

\* sc.findID(c.Args().Get(tunnelIDIndex)) and the return of its error.
RouteFindID ==
    /\ pc = "findID"
    /\ calls' = calls \o <<"findID">>
    /\ \E found \in BOOLEAN :
        IF found
        THEN pc' = "build" /\ UNCHANGED ret
        ELSE pc' = "done" /\ ret' = Err("Remote", "findID failed")
    /\ UNCHANGED <<op, ctx, args, filter, fetched, tunnels, clients,
                   invalidSortField, stdout, logs, route, fs, fs0, result>>

\* dnsRouteFromArg or lbRouteFromArg and the return of its error.
RouteBuild ==
    /\ pc = "build"
    /\ LET r == IF ArgsGet(args, 0) = DNS
                THEN dnsRouteFromArg(args, CtxBool(ctx, "overwrite-dns"))
                ELSE lbRouteFromArg(args)
       IN IF r.ret # NoErr
          THEN pc' = "done" /\ ret' = r.ret /\ UNCHANGED route
          ELSE pc' = "apply" /\ route' = r.route /\ UNCHANGED ret
    /\ UNCHANGED <<op, ctx, args, filter, fetched, tunnels, clients,
                   invalidSortField, stdout, logs, calls, fs, fs0, result>>

\* sc.route going on to the log of the summary whether or not it failed.
RouteApply_IgnoresError ==
    /\ pc = "apply"
    /\ calls' = calls \o <<"route">>
    /\ pc' = "log"
    /\ \E applied \in BOOLEAN :
        IF applied THEN UNCHANGED ret
        ELSE ret' = Err("Remote", "route failed")
    /\ UNCHANGED <<op, ctx, args, filter, fetched, tunnels, clients,
                   invalidSortField, stdout, logs, route, fs, fs0, result>>

\* sc.route(tunnelID, route) and the return of its error.
RouteApply ==
    /\ pc = "apply"
    /\ calls' = calls \o <<"route">>
    /\ \E applied \in BOOLEAN :
        IF applied
        THEN pc' = "log" /\ UNCHANGED ret
        ELSE pc' = "done" /\ ret' = Err("Remote", "route failed")
    /\ UNCHANGED <<op, ctx, args, filter, fetched, tunnels, clients,
                   invalidSortField, stdout, logs, route, fs, fs0, result>>

\* sc.log.Info()...Msg(res.SuccessSummary()) and return nil.
RouteLog ==
    /\ pc = "log"
    /\ logs' = logs \o <<Logged("info", [summaryOf |-> route[1]])>>
    /\ pc' = "done"
    /\ UNCHANGED <<op, ctx, args, filter, fetched, tunnels, clients,
                   invalidSortField, stdout, calls, route, ret, fs, fs0,
                   result>>

NextRouteSteps ==
    RouteStart \/ RouteFindID \/ RouteBuild \/ RouteApply \/ RouteLog

SpecRouteSteps == Init /\ [][NextRouteSteps]_vars

\* The state a finished step-by-step run is in, as a record like Idle.
Finished ==
    [op |-> op, ctx |-> ctx, args |-> args, filter |-> filter,
     fetched |-> fetched, tunnels |-> tunnels, clients |-> clients,
     invalidSortField |-> invalidSortField, stdout |-> stdout, logs |-> logs,
     calls |-> calls, route |-> route, ret |-> ret, result |-> result,
     fs |-> fs]

\* The step-by-step run ends where routeCommand as a whole ends.
StepsEndAsRouteCommand ==
    (pc = "done" /\ op = "route") =>
        \E scOk, found, applied \in BOOLEAN :
            Finished = routeCommand(args, ctx["overwrite-dns"], scOk, found,
                                    applied)

\* The arguments are those of a well-formed dns or lb route.
RouteArgsAreValid ==
    \/ /\ ArgsGet(args, 0) = DNS
       /\ Len(args) = 3
       /\ args[3] # <<>>
       /\ validateHostname(args[3], TRUE)
    \/ /\ ArgsGet(args, 0) = LB
       /\ Len(args) = 4
       /\ args[3] # <<>>
       /\ validateHostname(args[3], TRUE)
       /\ args[4] # <<>>
       /\ validateName(args[4], FALSE)

\* This step makes the collaborator call named.
Calls(name) == calls' = calls \o <<name>>

\* C13: in every run of the route command sc.route is called at most once
\* and only after sc.findID resolved the tunnel ID and the route was built
\* without error (right number of arguments, valid hostname, valid pool name
\* for lb); the success summary is logged only after sc.route returned
\* without error; and when resolution, validation or sc.route fails the
\* command returns that error, doing nothing more and logging no summary.
C13_RouteAppliedOnceThenSummarised ==
    [][ /\ Calls("route") =>
            /\ calls = <<"findID">>
            /\ ret = NoErr
            /\ route # <<>>
            /\ RouteArgsAreValid
        /\ logs' # logs =>
            /\ calls = <<"findID", "route">>
            /\ ret = NoErr
            /\ logs = <<>>
            /\ logs' = <<Logged("info", [summaryOf |-> route[1]])>>
        /\ ret = NoErr
        /\ ret' # NoErr => (pc' = "done" /\ logs' = <<>>)
        /\ pc # "done"
      ]_vars

\* A run resolved the tunnel ID, built an lb route, applied it and logged
\* its summary.
C13_Witness ==
    /\ op = "route"
    /\ pc = "done"
    /\ calls = <<"findID", "route">>
    /\ Len(args) = 4
    /\ route = <<NewLBRoute(args[3], args[4])>>
    /\ logs = <<Logged("info", [summaryOf |-> route[1]])>>
    /\ ret = NoErr

====
